---- MODULE Spec2Model ----
(***************************************************************************)
(* The Gibbs orchestrator bsvar() of src/src/bsvar.cpp as a state machine. *)
(*                                                                         *)
(* Matrices are abstracted to a shape and one integer of content taken     *)
(* modulo Modulus.  The three samplers (sample_ABhyper.h, not part of the  *)
(* sources at hand) are modelled from the design text: each overwrites its *)
(* own component in place with a draw that depends on the whole state      *)
(* triple and on one deviate of the host's random stream, or it throws.    *)
(* The host is R: it owns the random stream and the pending-interrupt flag  *)
(* and it may call bsvar again with the last draw of the previous call.    *)
(***************************************************************************)
EXTENDS Integers, Sequences, FiniteSets, TLC

\* ------------------------------------------------------------------ bounds
\* longest chain
MaxS ==
    401
\* every chain length up to MaxDense is run; beyond it only those next to a
\* multiple of the polling stride
MaxDense ==
    52
\* matrix contents are integers modulo Modulus
Modulus ==
    3
\* seeds of the random stream are 0..MaxSeed
MaxSeed ==
    1
\* chain lengths tried with disagreeing dimensions
MaxMismatchS ==
    2
\* total length of a continued chain (short continuations)
MaxCont ==
    6

\* ------------------------------------------------------- program constants
\* if (s % 200 == 0) checkUserInterrupt();
PollStride ==
    200
\* arma::linspace(0, S, 50)
ProgressPoints ==
    50
\* mat posterior_hyper(5, S);
HyperLen ==
    5

Val ==
    0 .. (Modulus - 1)

ChainLengths ==
    { n \in 1 .. MaxS : n <= MaxDense \/ n % PollStride <= 1 }

\* --------------------------------------------------------------- the host
\* R's random stream: a generator state advanced by every deviate drawn.
NextRng(r) ==
    (3 * r + 1) % 7

Deviate(r) ==
    r % Modulus

Seeds ==
    0 .. MaxSeed

\* ------------------------------------------------------------- dimensions
\* Y is NxT, X is KxT; starting A is NxK, starting B is NxN, hyper has 5
\* entries; VB has N entries; the prior matrices follow N and K.
GoodDims ==
    [ Y |-> <<2, 4>>, X |-> <<3, 4>>, A |-> <<2, 3>>, B |-> <<2, 2>>,
      hyper |-> HyperLen, VB |-> 2, priorA |-> <<2, 3>> ]

DimCases ==
    { GoodDims,
      [GoodDims EXCEPT !.A = <<3, 2>>],
      [GoodDims EXCEPT !.B = <<3, 3>>],
      [GoodDims EXCEPT !.hyper = 4],
      [GoodDims EXCEPT !.X = <<3, 5>>],
      [GoodDims EXCEPT !.VB = 3],
      [GoodDims EXCEPT !.priorA = <<3, 3>>] }

\* const int N = Y.n_rows;  const int K = X.n_rows;
DimN(d) ==
    d.Y[1]

DimK(d) ==
    d.X[1]

\* agreement of every dimension the interface names
DimsAgree(d) ==
    /\ d.Y[2] = d.X[2]
    /\ d.A = <<DimN(d), DimK(d)>>
    /\ d.B = <<DimN(d), DimN(d)>>
    /\ d.hyper = HyperLen
    /\ d.VB = DimN(d)
    /\ d.priorA = <<DimN(d), DimK(d)>>

\* what the three copies into the history need: the state triple has the
\* shape of a slice of cube(N,N,S), of cube(N,K,S) and of a column of mat(5,S)
FitsB(d) ==
    d.B = <<DimN(d), DimN(d)>>

FitsA(d) ==
    d.A = <<DimN(d), DimK(d)>>

FitsHyper(d) ==
    d.hyper = HyperLen

ShapesFit(d) ==
    FitsB(d) /\ FitsA(d) /\ FitsHyper(d)

\* ------------------------------------------------------------ the samplers
\* sample_hyperparameters(aux_hyper, aux_B, aux_A, VB, prior)
DrawHyper(h, B, A, u) ==
    (2 * h + B + A + u + 1) % Modulus

\* sample_A_homosk1(aux_A, aux_B, aux_hyper, Y, X, prior)
DrawA(A, B, h, u) ==
    (A + 2 * B + h + u) % Modulus

\* sample_B_homosk1(aux_B, aux_A, aux_hyper, Y, X, prior, VB)
DrawB(B, A, h, u) ==
    (2 * B + A + 2 * h + u + 2) % Modulus

\* ------------------------------------------------------------------ state
VARIABLES
    S, dims, start,             \* the call's arguments
    rng, interruptPending,      \* the host: random stream, pending Esc
    pc, s, aux, posterior,      \* bsvar's position, loop index and locals
    ticks,                      \* increments received by Progress p
    outcome, result,            \* how the call ended and what it returned
    callNo, rng0, first,        \* observers: the call's number, the stream
                                \* at its start, the call before it
    calls, trace,               \* sampler invocations: total, this iteration
    tickAt, polledAt,           \* iterations that ticked, that polled
    writes,                     \* assignments made to each history slot
    firedAt, failedAt           \* where a poll saw the Esc, where it threw

vars ==
    << S, dims, start, rng, interruptPending, pc, s, aux, posterior, ticks,
       outcome, result, callNo, rng0, first, calls, trace, tickAt, polledAt,
       writes, firedAt, failedAt >>

\* locals before their construction
Unallocated ==
    [ B |-> Modulus, A |-> Modulus, hyper |-> Modulus ]

\* what a copy of the wrong size leaves in a slice when Armadillo's
\* conformance checks are compiled out
Garbage ==
    << Modulus >>

Triples ==
    [ B : Val, A : Val, hyper : Val ]

StartChoices ==
    { [ B |-> 1, A |-> 0, hyper |-> 1 ], [ B |-> 2, A |-> 1, hyper |-> 0 ] }

EmptyBuffers(n) ==
    [ B |-> [ i \in 0 .. (n - 1) |-> <<>> ],
      A |-> [ i \in 0 .. (n - 1) |-> <<>> ],
      hyper |-> [ i \in 0 .. (n - 1) |-> <<>> ] ]

NoWrites(n) ==
    [ B |-> [ i \in 0 .. (n - 1) |-> 0 ],
      A |-> [ i \in 0 .. (n - 1) |-> 0 ],
      hyper |-> [ i \in 0 .. (n - 1) |-> 0 ] ]

Init ==
    /\ \E len \in ChainLengths, st \in StartChoices, seed \in Seeds, d \in DimCases :
         /\ \/ DimsAgree(d)
            \/ /\ len <= MaxMismatchS
               /\ st = [ B |-> 1, A |-> 0, hyper |-> 1 ]
               /\ seed = 0
         /\ S = len
         /\ start = st
         /\ rng = seed
         /\ rng0 = seed
         /\ dims = d
    /\ interruptPending = FALSE
    /\ pc = "begin"
    /\ s = 0
    /\ aux = Unallocated
    /\ posterior = EmptyBuffers(0)
    /\ ticks = 0
    /\ outcome = "running"
    /\ result = <<>>
    /\ callNo = 1
    /\ first = <<>>
    /\ calls = 0
    /\ trace = <<>>
    /\ tickAt = {}
    /\ polledAt = {}
    /\ writes = NoWrites(0)
    /\ firedAt = <<>>
    /\ failedAt = <<>>

\* ------------------------------------------------------------ the program
\* another design: a pending interrupt ends the loop at its head
LoopHead_StopsWhenPending(i) ==
    IF i < S /\ ~interruptPending THEN "progress" ELSE "return"

\* for (int s=0; s<S; s++)
LoopHead(i) ==
    IF i < S THEN "progress" ELSE "return"

\* a slip: the hyperparameters started afresh, not from starting_values
StartingState_FreshHyper(sv) ==
    [ B |-> sv.B, A |-> sv.A, hyper |-> 0 ]

\* mat aux_B = as<mat>(starting_values["B"]); aux_A; aux_hyper
StartingState(sv) ==
    [ B |-> sv.B, A |-> sv.A, hyper |-> sv.hyper ]

\* another design: the dimensions are compared before the loop
BeginCall_Validating ==
    /\ pc = "begin"
    /\ IF DimsAgree(dims)
         THEN /\ aux' = StartingState(start)
              /\ posterior' = EmptyBuffers(S)
              /\ writes' = NoWrites(S)
              /\ pc' = LoopHead(0)
              /\ UNCHANGED << outcome, failedAt >>
         ELSE /\ outcome' = "failed"
              /\ failedAt' = << [ s |-> 0, op |-> "validate" ] >>
              /\ pc' = "done"
              /\ UNCHANGED << aux, posterior, writes >>
    /\ s' = 0
    /\ ticks' = 0
    /\ rng0' = rng
    /\ calls' = 0
    /\ trace' = <<>>
    /\ tickAt' = {}
    /\ polledAt' = {}
    /\ UNCHANGED << S, dims, start, rng, interruptPending, result, callNo,
                    first, firedAt >>

\* lines 97-115: progress bar set up, N and K read, starting values copied,
\* history buffers allocated; nothing is compared with anything
BeginCall ==
    /\ pc = "begin"
    /\ aux' = StartingState(start)
    /\ posterior' = EmptyBuffers(S)
    /\ s' = 0
    /\ ticks' = 0
    /\ pc' = LoopHead(0)
    /\ rng0' = rng
    /\ calls' = 0
    /\ trace' = <<>>
    /\ tickAt' = {}
    /\ polledAt' = {}
    /\ writes' = NoWrites(S)
    /\ UNCHANGED << S, dims, start, rng, interruptPending, outcome, result,
                    callNo, first, firedAt, failedAt >>

\* arma::round: to the nearest integer, halves away from zero (num, den >= 0)
Round(num, den) ==
    (2 * num + den) \div (2 * den)

\* a slip: the points spread over 0..S-1, the iterations that exist
ProgRepPoints_ToLast(n) ==
    { Round(i * (n - 1), ProgressPoints - 1) : i \in 0 .. (ProgressPoints - 1) }

\* vec prog_rep_points = arma::round(arma::linspace(0, S, 50));
ProgRepPoints(n) ==
    { Round(i * n, ProgressPoints - 1) : i \in 0 .. (ProgressPoints - 1) }

\* if (any(prog_rep_points == s)) p.increment();
ProgressStep ==
    /\ pc = "progress"
    /\ IF s \in ProgRepPoints(S)
         THEN /\ ticks' = ticks + 1
              /\ tickAt' = tickAt \cup {s}
         ELSE UNCHANGED << ticks, tickAt >>
    /\ pc' = "poll"
    /\ UNCHANGED << S, dims, start, rng, interruptPending, s, aux, posterior,
                    outcome, result, callNo, rng0, first, calls, trace,
                    polledAt, writes, firedAt, failedAt >>

\* a slip: the poll one iteration late
PollDue_OneLate(i) ==
    i % PollStride = 1

\* s % 200 == 0
PollDue(i) ==
    i % PollStride = 0

\* a slip: B sampled before A
StepOrder_BBeforeA ==
    << "hyper", "B", "A" >>

\* the order of lines 124-126
StepOrder ==
    << "hyper", "A", "B" >>

AfterStep(op) ==
    IF op = StepOrder[1] THEN StepOrder[2]
    ELSE IF op = StepOrder[2] THEN StepOrder[3]
    ELSE "record"

\* another design: the interrupt ends the loop and the call returns what
\* it has
InterruptThrown_ReturnsPartial ==
    /\ pc' = "return"
    /\ firedAt' = << s >>
    /\ interruptPending' = FALSE
    /\ UNCHANGED << outcome, result >>

\* checkUserInterrupt() with an interrupt pending: Rcpp throws
\* internal::InterruptedException, the frame of bsvar is unwound and the
\* call ends in R's interrupt condition; no value is returned
InterruptThrown ==
    /\ outcome' = "interrupted"
    /\ pc' = "done"
    /\ firedAt' = << s >>
    /\ interruptPending' = FALSE
    /\ UNCHANGED result

\* if (s % 200 == 0) checkUserInterrupt();
PollInterrupt ==
    /\ pc = "poll"
    /\ polledAt' = IF PollDue(s) THEN polledAt \cup {s} ELSE polledAt
    /\ IF PollDue(s) /\ interruptPending
         THEN InterruptThrown
         ELSE /\ pc' = StepOrder[1]
              /\ UNCHANGED << outcome, firedAt, interruptPending, result >>
    /\ UNCHANGED << S, dims, start, rng, s, aux, posterior, ticks, callNo,
                    rng0, first, calls, trace, tickAt, writes, failedAt >>

\* another design: the exception is caught and the iteration skipped
SamplerThrows_Skipped(op) ==
    /\ failedAt' = << [ s |-> s, op |-> op ] >>
    /\ calls' = calls + 1
    /\ s' = s + 1
    /\ pc' = LoopHead(s + 1)
    /\ trace' = <<>>
    /\ UNCHANGED << S, dims, start, rng, interruptPending, aux, posterior,
                    ticks, outcome, result, callNo, rng0, first, tickAt,
                    polledAt, writes, firedAt >>

\* an exception leaving a sampler: bsvar has no handler, so it leaves bsvar
SamplerThrows(op) ==
    /\ outcome' = "failed"
    /\ pc' = "done"
    /\ failedAt' = << [ s |-> s, op |-> op ] >>
    /\ calls' = calls + 1
    /\ UNCHANGED << S, dims, start, rng, interruptPending, s, aux, posterior,
                    ticks, result, callNo, rng0, first, trace, tickAt,
                    polledAt, writes, firedAt >>

\* a sampler returning: its component overwritten in place, one deviate used
SamplerReturns(op, new) ==
    /\ aux' = new
    /\ rng' = NextRng(rng)
    /\ calls' = calls + 1
    /\ trace' = Append(trace, [ op |-> op, saw |-> aux, out |-> new ])
    /\ pc' = AfterStep(op)
    /\ UNCHANGED << S, dims, start, interruptPending, s, posterior, ticks,
                    outcome, result, callNo, rng0, first, tickAt, polledAt,
                    writes, firedAt, failedAt >>

\* sample_hyperparameters(aux_hyper, aux_B, aux_A, VB, prior);
SampleHyperparameters ==
    /\ pc = "hyper"
    /\ \E ok \in BOOLEAN :
         IF ok
           THEN SamplerReturns("hyper",
                  [ aux EXCEPT !.hyper = DrawHyper(aux.hyper, aux.B, aux.A, Deviate(rng)) ])
           ELSE SamplerThrows("hyper")

\* sample_A_homosk1(aux_A, aux_B, aux_hyper, Y, X, prior);
SampleA ==
    /\ pc = "A"
    /\ \E ok \in BOOLEAN :
         IF ok
           THEN SamplerReturns("A",
                  [ aux EXCEPT !.A = DrawA(aux.A, aux.B, aux.hyper, Deviate(rng)) ])
           ELSE SamplerThrows("A")

\* sample_B_homosk1(aux_B, aux_A, aux_hyper, Y, X, prior, VB);
SampleB ==
    /\ pc = "B"
    /\ \E ok \in BOOLEAN :
         IF ok
           THEN SamplerReturns("B",
                  [ aux EXCEPT !.B = DrawB(aux.B, aux.A, aux.hyper, Deviate(rng)) ])
           ELSE SamplerThrows("B")

\* a slip: the slice before the one of the iteration
SliceIndex_OffByOne(i) ==
    IF i = 0 THEN 0 ELSE i - 1

\* the slot of iteration i: posterior_B.slice(s), posterior_A.slice(s),
\* posterior_hyper.col(s)
SliceIndex(i) ==
    i

\* lines 128-130, in the order B, A, hyper.  A component of the right shape
\* is copied.  One of another shape makes the assignment throw ("size is
\* fixed and hence cannot be changed", "copy into submatrix") when the
\* conformance checks are compiled in, which ends the call before the later
\* assignments; with the checks compiled out the behaviour is undefined and
\* the slot holds garbage.
RecordDraw ==
    /\ pc = "record"
    /\ \E checks \in BOOLEAN :
         LET fB == FitsB(dims)
             fA == FitsA(dims)
             fH == FitsHyper(dims)
             throws == checks /\ ~(fB /\ fA /\ fH)
             wB == ~checks \/ fB
             wA == ~checks \/ (fB /\ fA)
             wH == ~checks \/ (fB /\ fA /\ fH)
             k == SliceIndex(s)
         IN  /\ posterior' =
                  [ B |-> IF wB
                            THEN [ posterior.B EXCEPT ![k] = IF fB THEN << aux.B >> ELSE Garbage ]
                            ELSE posterior.B,
                    A |-> IF wA
                            THEN [ posterior.A EXCEPT ![k] = IF fA THEN << aux.A >> ELSE Garbage ]
                            ELSE posterior.A,
                    hyper |-> IF wH
                            THEN [ posterior.hyper EXCEPT ![k] = IF fH THEN << aux.hyper >> ELSE Garbage ]
                            ELSE posterior.hyper ]
             /\ writes' =
                  [ B |-> IF wB THEN [ writes.B EXCEPT ![k] = @ + 1 ] ELSE writes.B,
                    A |-> IF wA THEN [ writes.A EXCEPT ![k] = @ + 1 ] ELSE writes.A,
                    hyper |-> IF wH THEN [ writes.hyper EXCEPT ![k] = @ + 1 ] ELSE writes.hyper ]
             /\ IF throws
                  THEN /\ outcome' = "failed"
                       /\ pc' = "done"
                       /\ failedAt' = << [ s |-> s, op |-> "copy" ] >>
                       /\ UNCHANGED << s, trace >>
                  ELSE /\ s' = s + 1
                       /\ pc' = LoopHead(s + 1)
                       /\ trace' = <<>>
                       /\ UNCHANGED << outcome, failedAt >>
    /\ UNCHANGED << S, dims, start, rng, interruptPending, aux, ticks, result,
                    callNo, rng0, first, calls, tickAt, polledAt, firedAt >>

\* a slip: the starting values exported in place of the final state
LastDraw_StartingValues(t) ==
    [ B |-> start.B, A |-> start.A, hyper |-> start.hyper ]

\* _["last_draw"] = List::create(_["B"] = aux_B, _["A"] = aux_A, _["hyper"] = aux_hyper)
LastDraw(t) ==
    [ B |-> t.B, A |-> t.A, hyper |-> t.hyper ]

\* return List::create(last_draw, posterior)
ReturnResult ==
    /\ pc = "return"
    /\ result' = << [ last_draw |-> LastDraw(aux), posterior |-> posterior ] >>
    /\ outcome' = "returned"
    /\ pc' = "done"
    /\ UNCHANGED << S, dims, start, rng, interruptPending, s, aux, posterior,
                    ticks, callNo, rng0, first, calls, trace, tickAt,
                    polledAt, writes, firedAt, failedAt >>

\* ---------------------------------------------------------------- the host
\* the user presses Esc while the call runs
RequestInterrupt ==
    /\ pc # "done"
    /\ ~interruptPending
    /\ interruptPending' = TRUE
    /\ UNCHANGED << S, dims, start, rng, pc, s, aux, posterior, ticks,
                    outcome, result, callNo, rng0, first, calls, trace,
                    tickAt, polledAt, writes, firedAt, failedAt >>

\* the continuations that are run: short ones, and ones that start at a
\* multiple of the polling stride
ContinuationOK(len1, len2) ==
    /\ len2 \in ChainLengths
    /\ len1 + len2 <= MaxS
    /\ \/ len1 + len2 <= MaxCont
       \/ len1 % PollStride = 0 /\ len2 % PollStride = 1

\* the follow-up run: last_draw handed back as starting_values, the other
\* arguments the same, the random stream where the first call left it
ContinueChain ==
    /\ pc = "done"
    /\ outcome = "returned"
    /\ callNo = 1
    /\ ~interruptPending
    /\ \E len \in 1 .. MaxS :
         /\ ContinuationOK(S, len)
         /\ S' = len
    /\ start' = result[1].last_draw
    /\ first' = << [ S |-> S, start |-> start, rng0 |-> rng0,
                     posterior |-> result[1].posterior ] >>
    /\ callNo' = 2
    /\ pc' = "begin"
    /\ outcome' = "running"
    /\ result' = <<>>
    /\ aux' = Unallocated
    /\ posterior' = EmptyBuffers(0)
    /\ writes' = NoWrites(0)
    /\ s' = 0
    /\ ticks' = 0
    /\ calls' = 0
    /\ tickAt' = {}
    /\ polledAt' = {}
    /\ UNCHANGED << dims, rng, interruptPending, rng0, trace, firedAt, failedAt >>

Next ==
    \/ BeginCall
    \/ ProgressStep
    \/ PollInterrupt
    \/ SampleHyperparameters
    \/ SampleA
    \/ SampleB
    \/ RecordDraw
    \/ ReturnResult
    \/ RequestInterrupt
    \/ ContinueChain

Spec ==
    Init /\ [][Next]_vars

\* ------------------------------------------------- the chain as a function
\* one pass of the loop body over the state triple t and the stream r
Sweep(t, r) ==
    LET h1 == DrawHyper(t.hyper, t.B, t.A, Deviate(r))
        r1 == NextRng(r)
        A1 == DrawA(t.A, t.B, h1, Deviate(r1))
        r2 == NextRng(r1)
        B1 == DrawB(t.B, A1, h1, Deviate(r2))
    IN  [ t |-> [ B |-> B1, A |-> A1, hyper |-> h1 ], r |-> NextRng(r2) ]

\* the states after passes 1..n from the triple t0 and the stream r0
RECURSIVE ChainSeq(_, _, _)
ChainSeq(n, t0, r0) ==
    IF n = 0
      THEN <<>>
      ELSE LET before == ChainSeq(n - 1, t0, r0)
               last == IF n = 1 THEN [ t |-> t0, r |-> r0 ] ELSE before[n - 1]
           IN  Append(before, Sweep(last.t, last.r))

Buffers ==
    { "B", "A", "hyper" }

\* slots 0..k-1 of the three histories are written and no other
FilledExactly(k) ==
    \A b \in Buffers : \A i \in DOMAIN posterior[b] :
        (posterior[b][i] # <<>>) <=> (i < k)

Min(a, b) ==
    IF a < b THEN a ELSE b

\* ------------------------------------------------------------------ claims

\* C1: a complete run (returned, neither interrupted nor failed) whose
\* starting values have the shapes of the history slices returns histories of exactly S written slices, indices
\* 0..S-1, and last_draw equals slice S-1 of each history.
C1_CompleteRun ==
    (outcome = "returned" /\ ShapesFit(dims)) =>
        LET r == result[1]
        IN  /\ \A b \in Buffers :
                 /\ DOMAIN r.posterior[b] = 0 .. (S - 1)
                 /\ \A i \in 0 .. (S - 1) : Len(r.posterior[b][i]) = 1
                 /\ r.posterior[b][S - 1] = << r.last_draw[b] >>
            /\ s = S

C1_Witness ==
    /\ outcome = "returned"
    /\ DimsAgree(dims)
    /\ S > PollStride
    /\ result[1].last_draw # start

\* C2: in every iteration the samplers run in the order hyper, A, B, each on
\* the triple the one before it left (A sees the new hyper, B the new hyper
\* and the new A), and slot s is not written before all three have run.
C2_SamplerOrder ==
    (pc \in { "poll", "hyper", "A", "B", "record" }) =>
        LET n == Len(trace)
        IN  /\ n = ( CASE pc = "poll" -> 0 [] pc = "hyper" -> 0 [] pc = "A" -> 1
                       [] pc = "B" -> 2 [] pc = "record" -> 3 )
            /\ \A i \in 1 .. n : trace[i].op = << "hyper", "A", "B" >>[i]
            /\ \A i \in 1 .. n : trace[i].out = (IF i = n THEN aux ELSE trace[i + 1].saw)
            /\ n >= 1 => /\ trace[1].out.A = trace[1].saw.A
                         /\ trace[1].out.B = trace[1].saw.B
            /\ n >= 2 => /\ trace[2].saw.hyper = trace[1].out.hyper
                         /\ trace[2].out.hyper = trace[1].out.hyper
                         /\ trace[2].out.B = trace[1].saw.B
            /\ n >= 3 => /\ trace[3].saw.hyper = trace[1].out.hyper
                         /\ trace[3].saw.A = trace[2].out.A
                         /\ trace[3].out.A = trace[2].out.A
            /\ calls = 3 * s + n
            /\ \A b \in Buffers : posterior[b][s] = <<>>

C2_Witness ==
    /\ pc = "record"
    /\ s > 1
    /\ trace[1].out.hyper # trace[1].saw.hyper
    /\ trace[2].out.A # trace[2].saw.A
    /\ trace[3].out.B # trace[3].saw.B

C5_FailureAborts ==
    (failedAt # <<>> /\ failedAt[1].op \in { "hyper", "A", "B" }) =>
        LET j == CASE failedAt[1].op = "hyper" -> 1
                   [] failedAt[1].op = "A" -> 2
                   [] failedAt[1].op = "B" -> 3
        IN  /\ outcome = "failed"
            /\ pc = "done"
            /\ result = <<>>
            /\ s = failedAt[1].s
            /\ calls = 3 * s + j
            /\ Len(trace) = j - 1
            /\ \A b \in Buffers : \A i \in DOMAIN posterior[b] :
                 i >= s => posterior[b][i] = <<>>

C5_Witness ==
    /\ failedAt # <<>>
    /\ failedAt[1].op = "A"
    /\ failedAt[1].s > 0
    /\ failedAt[1].s < S - 1
    /\ outcome = "failed"

\* the iterations at which a complete run of n draws ticks
TickIterations(n) ==
    ProgRepPoints(n) \cap (0 .. (n - 1))

\* C6 as stated: the number of progress increments of a complete run is the
\* same for every chain length, that of the longest chain.
C6_Original ==
    (outcome = "returned") => ticks = Cardinality(TickIterations(MaxS))

\* C6 as amended: a complete run of S draws increments the progress bar
\* min(S, 49) times, so at most 49 times and 49 times for every S >= 49; for
\* S < 49 it ticks at every iteration; for S >= 49 the first tick is at
\* iteration 0 and consecutive ticks are S div 49 or S div 49 + 1 apart.
C6_ProgressCount ==
    (outcome = "returned") =>
        LET step == S \div (ProgressPoints - 1)
        IN  /\ ticks = Min(S, ProgressPoints - 1)
            /\ ticks = Cardinality(tickAt)
            /\ ticks < ProgressPoints
            /\ 0 \in tickAt
            /\ S < ProgressPoints - 1 => tickAt = 0 .. (S - 1)
            /\ S >= ProgressPoints - 1 =>
                 \A a \in tickAt :
                     \/ \A b \in tickAt : b <= a
                     \/ \E b \in tickAt :
                          /\ b - a \in { step, step + 1 }
                          /\ \A c \in tickAt : ~(a < c /\ c < b)
            /\ S >= ProgressPoints - 1 =>
                 \A a \in tickAt : S - a >= step

C6_Witness ==
    /\ outcome = "returned"
    /\ S > 2 * PollStride
    /\ ticks = ProgressPoints - 1

\* slots from..from+n-1 of the chain ref, as a history buffer over 0..n-1
SliceOf(ref, from, n, b) ==
    [ i \in 0 .. (n - 1) |-> << ref[from + i + 1].t[b] >> ]

\* C7: a run of S1 draws followed by a run of S2 draws that starts from the
\* first run's last_draw and continues its random stream gives, histories
\* concatenated, the history of one run of S1+S2 draws from the original
\* starting values, and the same last_draw.
C7_Continuation ==
    (callNo = 2 /\ outcome = "returned" /\ ShapesFit(dims)) =>
        LET f == first[1]
            ref == ChainSeq(f.S + S, f.start, f.rng0)
        IN  /\ \A b \in Buffers :
                 /\ f.posterior[b] = SliceOf(ref, 0, f.S, b)
                 /\ result[1].posterior[b] = SliceOf(ref, f.S, S, b)
            /\ result[1].last_draw = ref[f.S + S].t
            /\ rng = ref[f.S + S].r

C7_Witness ==
    /\ callNo = 2
    /\ outcome = "returned"
    /\ DimsAgree(dims)
    /\ first[1].S = PollStride
    /\ S = PollStride + 1
    /\ start # first[1].start

\* C8: what a call returns is determined by S, the starting values and the
\* random stream it is fed: the histories and last_draw are those of the
\* chain computed from them alone, whether or not an interrupt is pending
\* that no poll sees, and whether the call is the first or a follow-up.
C8_Determinism ==
    (outcome = "returned" /\ ShapesFit(dims)) =>
        LET ref == ChainSeq(S, start, rng0)
        IN  result[1] = [ last_draw |-> ref[S].t,
                          posterior |-> [ b \in Buffers |-> SliceOf(ref, 0, S, b) ] ]

C8_Witness ==
    /\ outcome = "returned"
    /\ DimsAgree(dims)
    /\ interruptPending
    /\ S > 1
    /\ S < PollStride

\* C9: the poll is made only at the start of an iteration s with
\* s % 200 = 0, s = 0 included, before any sampler of that iteration; when
\* it fires, slots 0..s-1 are written and no other, and the state triple is
\* the one iteration s-1 left (the starting values for s = 0).
C9_PollPoint ==
    /\ (pc \notin { "begin", "done" }) =>
         LET polled == IF pc \in { "hyper", "A", "B", "record" } THEN s + 1 ELSE s
             n == (polled + PollStride - 1) \div PollStride
         IN  polledAt = { i * PollStride : i \in 0 .. (n - 1) }
    /\ (firedAt # <<>>) =>
         /\ firedAt[1] % PollStride = 0
         /\ firedAt[1] = s
         /\ trace = <<>>
         /\ calls = 3 * s
         /\ FilledExactly(s)
         /\ aux = IF s = 0 THEN StartingState(start)
                  ELSE [ b \in Buffers |-> posterior[b][s - 1][1] ]

C9_Witness ==
    /\ firedAt # <<>>
    /\ firedAt[1] = PollStride
    /\ S > PollStride + 1
    /\ aux # StartingState(start)

\* C10: each slot is written once, in iteration s for slot s, with the
\* triple the B sampler of that iteration left; when iteration s ends
\* exactly slots 0..s are written; a written slot never changes while the
\* call lasts.  (The histories change in the copy alone, so the slots are
\* inspected where the copy leaves the program: at the head of the loop, at
\* the return and where the copy has thrown.)
C10_WriteOnce ==
    /\ []((\/ pc \in { "progress", "return" }
           \/ pc = "done" /\ failedAt # <<>> /\ failedAt[1].op = "copy") =>
            /\ \A b \in Buffers : \A i \in DOMAIN posterior[b] :
                 /\ writes[b][i] <= 1
                 /\ (writes[b][i] = 1) <=> (posterior[b][i] # <<>>)
            /\ pc # "done" => FilledExactly(s)
            /\ (pc # "done" /\ s > 0 /\ ShapesFit(dims))
                 => \A b \in Buffers : posterior[b][s - 1] = << aux[b] >>)
    /\ [][ (posterior' # posterior /\ callNo' = callNo /\ pc # "begin") =>
             /\ pc = "record"
             /\ \A b \in Buffers : \A i \in DOMAIN posterior[b] :
                  posterior[b][i] # <<>> => posterior'[b][i] = posterior[b][i] ]_vars

C10_Witness ==
    /\ pc = "progress"
    /\ s > PollStride
    /\ posterior.A[s - 1] # posterior.A[s - 2]
    /\ \A b \in Buffers : writes[b][s - 1] = 1

====
